---- MODULE Spec2Model ----
(***************************************************************************)
(* A model of expyfun's ExperimentController                               *)
(* (src/expyfun/_experiment_controller.py): the flip-synchronised callback *)
(* scheduler (flip, flip_and_play, call_on_next_flip, call_on_every_flip)  *)
(* the clock reconciliation (_get_time_correction), the audio validation    *)
(* (_validate_audio, load_buffer), the level calibration (set_stim_db,     *)
(* set_noise_db, _update_sound_scaler), trigger stamping (stamp_triggers), *)
(* wait_until, construction (__init__) and teardown (close, __exit__).     *)
(*                                                                         *)
(* Time is counted in microseconds.  A callback is a registration id: ids  *)
(* are handed out in registration order, so "registered earlier" is "has a *)
(* smaller id".  The start-audio action ExperimentController._play has the *)
(* reserved id PLAY.                                                       *)
(***************************************************************************)
EXTENDS Integers, Sequences, FiniteSets, TLC

\* ---------------------------------------------------------------- bounds
MaxReg == 2
MaxFlips == 2
MaxTime == 1
MaxSkew == 6

\* ------------------------------------------------------------- constants
\* self._play, the start-audio action flip_and_play queues
PLAY == 0
\* Python's None where a timestamp is expected
NoTime == -1
\* the drift threshold 10e-6 s of _get_time_correction, in microseconds
DriftTol == 10

VARIABLES
    on_next_flip,     \* self._on_next_flip
    on_every_flip,    \* self._on_every_flip
    data_file,        \* the lines appended to self._data_file by the last flip
    has_data_file,    \* self._data_file is not None
    now,              \* the reading of self._master_clock
    pc,               \* position in flip(): 0 outside, else index in FlipOrder
    entry,            \* which entry point started the flip in progress
    call_list,        \* flip's local call_list
    idx,              \* position of flip's for loop in call_list
    flip_time,        \* flip's local flip_time
    result,           \* how the last flip ended: "none", "returned", "raised"
    ret,              \* the value the last flip returned
    n_reg,            \* number of registrations made so far
    registered,       \* id -> "none", "next" or "every": how id was registered
    during,           \* id -> flip during which it was registered (0: outside)
    n_flips,          \* number of flips started so far
    steps,            \* the statements the flip in progress has executed
    ran_in,           \* id -> set of flips in which the callback was called
    every_before,     \* self._on_every_flip when the flip in progress started
    time_corrections, \* self._time_corrections
    tc_call,          \* the last _get_time_correction call: input and outcome
    stim_fs,          \* self._stim_fs, in half Hz
    fs,               \* self._ac.fs, the device's rate, in half Hz
    suppress_resamp,  \* self._suppress_resamp
    check_rms,        \* self._check_rms: "None", "wholefile" or "windowed"
    stim_rms,         \* self._stim_rms, in sample units
    audio_type,       \* self._audio_type
    stim_db,          \* self._stim_db
    noise_db,         \* self._noise_db
    stim_scaler,      \* self._stim_scaler, a fraction <<numerator, denominator>>
    noise_level,      \* the level handed to self._ac.set_noise_level
    ac_buffer,        \* the buffer handed to self._ac.load_buffer
    va_call,          \* the last _validate_audio call: input and outcome
    va_again,         \* _validate_audio of the buffer va_call returned
    lb_call,          \* the last load_buffer / set_*_db call: input and outcome
    tr_chan,          \* whether the trigger channel is available
    tr_call,          \* the stamp_triggers call: input, position and outcome
    wu_call,          \* the last wait_until call: input and outcome
    init_call,        \* the __init__ call: arguments, steps and outcome
    extra_cleanup_fun, \* self._extra_cleanup_fun
    ex_pc,            \* the position of __exit__
    ex_err,           \* whether __exit__ was given an exception
    ex_fails,         \* the teardown operations that raise an Exception
    ex_todo,          \* the cleanup actions __exit__ has yet to call
    ex_steps,         \* what __exit__ has done so far, in order
    ex_result,        \* how __exit__ ended
    th_running,       \* each event thread's running attribute
    th_todo           \* the event threads __exit__ has yet to stop

flipVars == <<on_next_flip, on_every_flip, data_file, pc, entry, call_list,
              idx, flip_time, result, ret, n_reg, registered, during, n_flips,
              steps, ran_in, every_before>>
clockVars == <<time_corrections, tc_call>>
audioCfg == <<stim_fs, fs, suppress_resamp, check_rms, stim_rms, audio_type>>
audioVars == <<audioCfg, stim_db, noise_db, stim_scaler, noise_level, ac_buffer,
               va_call, va_again, lb_call>>
exitVars == <<extra_cleanup_fun, ex_pc, ex_err, ex_fails, ex_todo, ex_steps,
              ex_result, th_running, th_todo>>
lifeVars == <<tr_chan, tr_call, wu_call, init_call, exitVars>>
vars == <<flipVars, clockVars, has_data_file, now, audioVars, lifeVars>>

Ids == 1..MaxReg
ClockIds == {"keypress", "tdt"}

\* ----------------------------------------------------------- data file
\* write_data_line(event_type, value, timestamp): timestamp None is replaced
\* by the master clock's reading; nothing is written without a data file.
\* A line is kept as its three fields, in the order they are joined.
write_data_line(file, event_type, value, timestamp) ==
    IF has_data_file
    THEN Append(file, [event_type |-> event_type,
                       value |-> value,
                       timestamp |-> IF timestamp = NoTime THEN now ELSE timestamp])
    ELSE file

\* ------------------------------------------------------------ callbacks
\* flip_and_play: self._on_next_flip = [self._play] + self._on_next_flip
PlayLast(next) == Append(next, PLAY)
PlayFirst(next) == <<PLAY>> \o next

\* flip: call_list = self._on_next_flip + self._on_every_flip
EveryThenNext(next, every) == every \o next
CallList(next, every) == next \o every

\* the statements of flip(), in program order
FlipOrderClearFirst ==
    <<"call_list", "win_flip", "glFinish", "clock", "for", "clear_next",
      "glClear", "write_data_line", "return">>
FlipOrderClockFirst ==
    <<"call_list", "clock", "win_flip", "glFinish", "for", "glClear",
      "write_data_line", "clear_next", "return">>
FlipOrder ==
    <<"call_list", "win_flip", "glFinish", "clock", "for", "glClear",
      "write_data_line", "clear_next", "return">>

At(s) == pc \in 1..Len(FlipOrder) /\ FlipOrder[pc] = s
Stmt(s) == [op |-> s, cb |-> -1, t |-> NoTime]
Call(cb) == [op |-> "call", cb |-> cb, t |-> NoTime]

\* steps, data_file, entry, result, ret and every_before record the last flip
\* for its caller; the controller's next call finds the record cleared
ForgetLastFlip ==
    /\ steps' = <<>>
    /\ data_file' = <<>>
    /\ entry' = "none"
    /\ result' = "none"
    /\ ret' = NoTime
    /\ every_before' = <<>>

\* call_on_next_flip(function, ...) with a function
call_on_next_flip ==
    /\ pc = 0
    /\ n_reg < MaxReg
    /\ n_reg' = n_reg + 1
    /\ on_next_flip' = Append(on_next_flip, n_reg + 1)
    /\ registered' = [registered EXCEPT ![n_reg + 1] = "next"]
    /\ ForgetLastFlip
    /\ UNCHANGED <<on_every_flip, pc, call_list, idx,
                   flip_time, during, n_flips, ran_in, clockVars,
                   has_data_file, now, audioVars, lifeVars>>

\* call_on_next_flip(None)
clear_next_flip ==
    /\ pc = 0
    /\ on_next_flip # <<>>
    /\ on_next_flip' = <<>>
    /\ ForgetLastFlip
    /\ UNCHANGED <<on_every_flip, pc, call_list, idx, flip_time, n_reg,
                   registered, during, n_flips, ran_in, clockVars,
                   has_data_file, now, audioVars, lifeVars>>

\* call_on_every_flip(function, ...) with a function
call_on_every_flip ==
    /\ pc = 0
    /\ n_reg < MaxReg
    /\ n_reg' = n_reg + 1
    /\ on_every_flip' = Append(on_every_flip, n_reg + 1)
    /\ registered' = [registered EXCEPT ![n_reg + 1] = "every"]
    /\ ForgetLastFlip
    /\ UNCHANGED <<on_next_flip, pc, call_list, idx,
                   flip_time, during, n_flips, ran_in, clockVars,
                   has_data_file, now, audioVars, lifeVars>>

\* call_on_every_flip(None)
clear_every_flip ==
    /\ pc = 0
    /\ on_every_flip # <<>>
    /\ on_every_flip' = <<>>
    /\ ForgetLastFlip
    /\ UNCHANGED <<on_next_flip, pc, call_list, idx, flip_time, n_reg,
                   registered, during, n_flips, ran_in, clockVars,
                   has_data_file, now, audioVars, lifeVars>>

\* what entering flip() does to the caller-visible record of the last flip
EnterFlip(e) ==
    /\ pc = 0
    /\ n_flips < MaxFlips
    /\ n_flips' = n_flips + 1
    /\ entry' = e
    /\ pc' = 1
    /\ steps' = <<>>
    /\ result' = "none"
    /\ ret' = NoTime
    /\ every_before' = on_every_flip
    /\ data_file' = <<>>

\* flip(), called directly
flip ==
    /\ EnterFlip("flip")
    /\ UNCHANGED <<on_next_flip, on_every_flip, call_list, idx,
                   flip_time, n_reg, registered, during, ran_in,
                   clockVars, has_data_file, now, audioVars, lifeVars>>

\* flip_and_play(): queue _play, then flip()
flip_and_play ==
    /\ EnterFlip("flip_and_play")
    /\ on_next_flip' = PlayFirst(on_next_flip)
    /\ UNCHANGED <<on_every_flip, call_list, idx, flip_time, n_reg,
                   registered, during, ran_in, clockVars,
                   has_data_file, now, audioVars, lifeVars>>

\* call_list = self._on_next_flip + self._on_every_flip
FlipCallList ==
    /\ At("call_list")
    /\ call_list' = CallList(on_next_flip, on_every_flip)
    /\ idx' = 1
    /\ steps' = Append(steps, Stmt("call_list"))
    /\ pc' = pc + 1
    /\ UNCHANGED <<on_next_flip, on_every_flip, data_file, entry, flip_time,
                   result, ret, n_reg, registered, during, n_flips, ran_in,
                   every_before, clockVars, has_data_file, now, audioVars, lifeVars>>

\* self._win.dispatch_events(); self._win.flip(): the display swap
FlipWinFlip ==
    /\ At("win_flip")
    /\ steps' = Append(steps, Stmt("win_flip"))
    /\ pc' = pc + 1
    /\ UNCHANGED <<on_next_flip, on_every_flip, data_file, entry, call_list,
                   idx, flip_time, result, ret, n_reg, registered, during,
                   n_flips, ran_in, every_before, clockVars,
                   has_data_file, now, audioVars, lifeVars>>

\* GL.glFinish(): the barrier that waits for the swap
FlipGlFinish ==
    /\ At("glFinish")
    /\ steps' = Append(steps, Stmt("glFinish"))
    /\ pc' = pc + 1
    /\ UNCHANGED <<on_next_flip, on_every_flip, data_file, entry, call_list,
                   idx, flip_time, result, ret, n_reg, registered, during,
                   n_flips, ran_in, every_before, clockVars,
                   has_data_file, now, audioVars, lifeVars>>

\* flip_time = clock()
FlipClock ==
    /\ At("clock")
    /\ flip_time' = now
    /\ steps' = Append(steps, [op |-> "clock", cb |-> -1, t |-> now])
    /\ pc' = pc + 1
    /\ UNCHANGED <<on_next_flip, on_every_flip, data_file, entry, call_list,
                   idx, result, ret, n_reg, registered, during, n_flips,
                   ran_in, every_before, clockVars, has_data_file, now, audioVars, lifeVars>>

\* the record every call of a callback leaves
Called(cb) ==
    /\ steps' = Append(steps, Call(cb))
    /\ ran_in' = IF cb = PLAY THEN ran_in
                 ELSE [ran_in EXCEPT ![cb] = @ \cup {n_flips}]

\* function() for function = self._play: start the audio, log 'play'
CallPlay ==
    /\ At("for")
    /\ idx <= Len(call_list)
    /\ call_list[idx] = PLAY
    /\ Called(PLAY)
    /\ data_file' = write_data_line(data_file, "play", NoTime, NoTime)
    /\ idx' = idx + 1
    /\ UNCHANGED <<on_next_flip, on_every_flip, pc, entry, call_list,
                   flip_time, result, ret, n_reg, registered, during, n_flips,
                   every_before, clockVars, has_data_file, now, audioVars, lifeVars>>

\* function() for a user callback that returns
CallReturns ==
    /\ At("for")
    /\ idx <= Len(call_list)
    /\ call_list[idx] # PLAY
    /\ Called(call_list[idx])
    /\ idx' = idx + 1
    /\ UNCHANGED <<on_next_flip, on_every_flip, data_file, pc, entry,
                   call_list, flip_time, result, ret, n_reg, registered,
                   during, n_flips, every_before, clockVars,
                   has_data_file, now, audioVars, lifeVars>>

\* function() for a user callback that itself calls call_on_next_flip
CallRegisters ==
    /\ At("for")
    /\ idx <= Len(call_list)
    /\ call_list[idx] # PLAY
    /\ n_reg < MaxReg
    /\ Called(call_list[idx])
    /\ n_reg' = n_reg + 1
    /\ on_next_flip' = Append(on_next_flip, n_reg + 1)
    /\ registered' = [registered EXCEPT ![n_reg + 1] = "next"]
    /\ during' = [during EXCEPT ![n_reg + 1] = n_flips]
    /\ idx' = idx + 1
    /\ UNCHANGED <<on_every_flip, data_file, pc, entry, call_list, flip_time,
                   result, ret, n_flips, every_before, clockVars,
                   has_data_file, now, audioVars, lifeVars>>

\* an exception in a callback, swallowed: the loop goes on
Swallowed ==
    /\ idx' = idx + 1
    /\ UNCHANGED <<pc, call_list, flip_time, result, ret>>

\* an exception in a callback: flip has no handler, so it leaves flip
\* (and flip_and_play) at once, without a return value
Propagates ==
    /\ pc' = 0
    /\ result' = "raised"
    /\ ret' = NoTime
    /\ call_list' = <<>>
    /\ idx' = 0
    /\ flip_time' = NoTime

\* function() for a user callback that raises
CallRaises ==
    /\ At("for")
    /\ idx <= Len(call_list)
    /\ call_list[idx] # PLAY
    /\ steps' = Append(Append(steps, Call(call_list[idx])), Stmt("raise"))
    /\ ran_in' = [ran_in EXCEPT ![call_list[idx]] = @ \cup {n_flips}]
    /\ Propagates
    /\ UNCHANGED <<on_next_flip, on_every_flip, data_file, entry, n_reg,
                   registered, during, n_flips, every_before,
                   clockVars, has_data_file, now, audioVars, lifeVars>>

\* the for loop is exhausted
FlipLoopDone ==
    /\ At("for")
    /\ idx > Len(call_list)
    /\ pc' = pc + 1
    /\ UNCHANGED <<on_next_flip, on_every_flip, data_file, entry, call_list,
                   idx, flip_time, result, ret, n_reg, registered, during,
                   n_flips, steps, ran_in, every_before, clockVars,
                   has_data_file, now, audioVars, lifeVars>>

\* GL.glClear(GL.GL_COLOR_BUFFER_BIT)
FlipGlClear ==
    /\ At("glClear")
    /\ steps' = Append(steps, Stmt("glClear"))
    /\ pc' = pc + 1
    /\ UNCHANGED <<on_next_flip, on_every_flip, data_file, entry, call_list,
                   idx, flip_time, result, ret, n_reg, registered, during,
                   n_flips, ran_in, every_before, clockVars,
                   has_data_file, now, audioVars, lifeVars>>

\* the line flip logs with its own clock reading
LogsWriteTime == write_data_line(data_file, "flip", now, NoTime)
\* self.write_data_line('flip', flip_time): flip_time is the value field
FlipLine == write_data_line(data_file, "flip", flip_time, NoTime)

FlipWriteDataLine ==
    /\ At("write_data_line")
    /\ data_file' = FlipLine
    /\ steps' = Append(steps, Stmt("write_data_line"))
    /\ pc' = pc + 1
    /\ UNCHANGED <<on_next_flip, on_every_flip, entry, call_list, idx,
                   flip_time, result, ret, n_reg, registered, during, n_flips,
                   ran_in, every_before, clockVars, has_data_file, now, audioVars, lifeVars>>

\* self._on_next_flip = []
FlipClearNext ==
    /\ At("clear_next")
    /\ on_next_flip' = <<>>
    /\ steps' = Append(steps, Stmt("clear_next"))
    /\ pc' = pc + 1
    /\ UNCHANGED <<on_every_flip, data_file, entry, call_list, idx, flip_time,
                   result, ret, n_reg, registered, during, n_flips, ran_in,
                   every_before, clockVars, has_data_file, now, audioVars, lifeVars>>

\* return flip_time
FlipReturn ==
    /\ At("return")
    /\ result' = "returned"
    /\ ret' = flip_time
    /\ steps' = Append(steps, Stmt("return"))
    /\ pc' = 0
    /\ call_list' = <<>>
    /\ idx' = 0
    /\ flip_time' = NoTime
    /\ UNCHANGED <<on_next_flip, on_every_flip, data_file, entry, n_reg,
                   registered, during, n_flips, ran_in, every_before,
                   clockVars, has_data_file, now, audioVars, lifeVars>>

\* the master clock advances, at any point of the program
Tick ==
    /\ now < MaxTime
    /\ now' = now + 1
    /\ UNCHANGED <<flipVars, clockVars, has_data_file, audioVars, lifeVars>>

\* ------------------------------------------------- clock reconciliation
\* the readings an auxiliary clock can give: within MaxSkew of the master's
AuxReadings == (now - MaxSkew)..(now + MaxSkew)

Abs(x) == IF x < 0 THEN 0 - x ELSE x

\* time_correction = self._master_clock() - self._time_correction_fxns[.]()
Measure(master, aux) == master - aux

\* a baseline that every call overwrites
StoreAlways(tc, clock_type, time_correction) ==
    [c \in DOMAIN tc \cup {clock_type} |->
        IF c = clock_type THEN time_correction ELSE tc[c]]
\* if clock_type not in self._time_corrections:
\*     self._time_corrections[clock_type] = time_correction
StoreFirst(tc, clock_type, time_correction) ==
    IF clock_type \notin DOMAIN tc
    THEN [c \in DOMAIN tc \cup {clock_type} |->
             IF c = clock_type THEN time_correction ELSE tc[c]]
    ELSE tc

\* a drift test that also fires at the threshold
DriftedAtTol(diff) == Abs(diff) >= DriftTol
\* if np.abs(diff) > 10e-6: psylog.warn(...)
Drifted(diff) == Abs(diff) > DriftTol

\* a call that hands back the stored baseline
ReturnsBaseline(time_correction, baseline) == baseline
\* return time_correction
Returned(time_correction, baseline) == time_correction

\* _get_time_correction(clock_type), for a clock whose read function is known
get_time_correction ==
    \E clock_type \in ClockIds, aux \in AuxReadings :
        LET time_correction == Measure(now, aux)
            stored == StoreFirst(time_corrections, clock_type, time_correction)
            diff == time_correction - stored[clock_type]
        IN  /\ pc = 0
            /\ time_corrections' = stored
            /\ tc_call' = [ret |-> Returned(time_correction, stored[clock_type]),
                           master |-> now,
                           aux |-> aux,
                           clock_type |-> clock_type,
                           baseline |-> stored[clock_type],
                           first |-> clock_type \notin DOMAIN time_corrections,
                           warned |-> Drifted(diff)]
            /\ UNCHANGED <<flipVars, has_data_file, now, audioVars, lifeVars>>

\* ------------------------------------------------------ audio validation
\* Sample values are counted in units of 1/400 of full scale and rates in
\* half Hz, so that the limits the code compares against are integers.
\* float32 is modelled as the grid of even sample values: a conversion
\* rounds to the nearest grid value, ties to the one with the even mantissa.

\* the largest magnitude a sample may have: 1.0
FullScale == 400
\* the spacing of the float32 values
Grid32 == 2
\* stim_rms=0.01, the default of __init__
DefaultStimRms == 4
\* the absolute tolerance of the rate comparison: 0.5 Hz
RateTol == 1
\* a 10 ms window holds fs * 0.01 samples: one sample per 200 half Hz
WinDiv == 200

\* numpy's float32 conversion of one sample
Round32(v) ==
    LET r == v % Grid32
        lo == v - r
    IN  IF 2 * r < Grid32 THEN lo
        ELSE IF 2 * r > Grid32 THEN lo + Grid32
        ELSE IF (lo \div Grid32) % 2 = 0 THEN lo ELSE lo + Grid32

\* an array is its shape and its elements in row-major order
NoArray == [shape |-> <<>>, data |-> <<>>]
ndim(a) == Len(a.shape)
\* len(samples): the first dimension
len(a) == a.shape[1]
At2(a, r, c) == a.data[(r - 1) * a.shape[2] + c]
Column(a, c) == [r \in 1..a.shape[1] |-> At2(a, r, c)]
\* the N x C array whose columns are the given sequences
FromColumns(cols) ==
    LET n == Len(cols[1])
        m == Len(cols)
    IN  [shape |-> <<n, m>>,
         data |-> [k \in 1..(n * m) |-> cols[((k - 1) % m) + 1][((k - 1) \div m) + 1]]]
\* samples.T of a 2-D array
T(a) ==
    LET rows == a.shape[2]
        cols == a.shape[1]
    IN  [shape |-> <<rows, cols>>,
         data |-> [k \in 1..(rows * cols) |->
                       At2(a, ((k - 1) % cols) + 1, ((k - 1) \div cols) + 1)]]
AbsVal(v) == IF v < 0 THEN -v ELSE v
Min2(x, y) == IF x < y THEN x ELSE y
\* np.max(np.abs(samples)) of a non-empty array
MaxAbs(a) ==
    CHOOSE m \in {AbsVal(a.data[k]) : k \in DOMAIN a.data} :
        \A k \in DOMAIN a.data : AbsVal(a.data[k]) <= m

\* np.asarray(samples, dtype='float32') / np.float32(samples)
AsFloat32(a) == [shape |-> a.shape, data |-> [k \in DOMAIN a.data |-> Round32(a.data[k])]]

\* a range test that lets every input through
NeverExceeds(a) == FALSE
\* np.max(np.abs(samples)) > 1
ExceedsRange(a) == MaxAbs(a) > FullScale

\* samples.ndim > 2
TooManyDims(a) == ndim(a) > 2

\* a channel test that looks at the second dimension only
SecondDimOverTwo(a) == ndim(a) = 2 /\ a.shape[2] > 2
\* samples.ndim == 2 and min(samples.shape) > 2
TooManyChannels(a) == ndim(a) = 2 /\ Min2(a.shape[1], a.shape[2]) > 2

\* elif len(samples.shape) == 2 and samples.shape[0] <= 2: samples = samples.T
ChannelLast(a) == IF ndim(a) = 2 /\ a.shape[1] <= 2 THEN T(a) ELSE a

\* a rate test that asks for equal rates
FsDiffer(native, device) == native # device
\* _fs_mismatch: not np.allclose(self.stim_fs, self.fs, rtol=0, atol=0.5)
fs_mismatch(native, device) == ~(AbsVal(native - device) <= RateTol)

\* the nearest whole number of samples, halves upwards
NumSamplesRounded(n, native, device) == (2 * n * device + native) \div (2 * native)
\* int(len(samples) * self.fs / float(self.stim_fs))
NumSamples(n, native, device) == (n * device) \div native

\* one channel brought to n samples: each output sample is the input sample
\* at or before its instant (in place of scipy's Fourier interpolation)
Resample1(x, n) == [k \in 1..n |-> x[(((k - 1) * Len(x)) \div n) + 1]]
\* resample(samples, n, window='boxcar'), along the first axis
resample(a, n) ==
    IF ndim(a) = 1 THEN [shape |-> <<n>>, data |-> Resample1(a.data, n)]
    ELSE FromColumns([c \in 1..a.shape[2] |-> Resample1(Column(a, c), n)])

\* samples.ndim == 1, or 1 in samples.shape: the samples, ravelled, twice
MakeStereo(a) ==
    IF ndim(a) = 1 THEN FromColumns(<<a.data, a.data>>)
    ELSE IF 1 \in {a.shape[1], a.shape[2]} THEN FromColumns(<<a.data, a.data>>)
    ELSE a

RECURSIVE SumSq(_)
SumSq(x) == IF x = <<>> THEN 0 ELSE Head(x) * Head(x) + SumSq(Tail(x))
\* the mean squares of x over each window of win_length samples, as
\* fractions <<numerator, denominator>>, for Len(x) >= win_length
running_rms(x, win_length) ==
    {<<SumSq(SubSeq(x, i, i + win_length - 1)), win_length>> :
        i \in 1..(Len(x) - win_length + 1)}
\* win_length = int(self.fs * 0.01)
WinLength(device) == device \div WinDiv
\* the mean squares max_rms is the largest root of, per channel
ChanMeanSquares(a, mode, device) ==
    UNION {IF mode = "wholefile"
           THEN {<<SumSq(Column(a, c)), a.shape[1]>>}
           ELSE running_rms(Column(a, c), WinLength(device)) : c \in 1..a.shape[2]}
\* a level test that passes every buffer
NeverTooLoud(ms, rms) == FALSE
\* max_rms > 2 * self._stim_rms
TooLoud(ms, rms) == \E f \in ms : f[1] > 4 * rms * rms * f[2]
\* a level test that warns up to half the stated RMS
TooQuietToHalf(ms, rms) == \A f \in ms : 4 * f[1] <= rms * rms * f[2]
\* max_rms < 0.5 * self._stim_rms
TooQuiet(ms, rms) == \A f \in ms : 4 * f[1] < rms * rms * f[2]

\* a lead-in step that adds no frame
NoLeadIn(a) == a
\* a lead-in step that adds nothing to a buffer that starts with silence
LeadInOnce(a) ==
    IF a.data[1] = 0 /\ a.data[2] = 0 THEN a
    ELSE [shape |-> <<a.shape[1] + 1, 2>>, data |-> <<0, 0>> \o a.data]
\* np.r_[np.atleast_2d([0.0, 0.0]), samples]
PrependLeadIn(a) == [shape |-> <<a.shape[1] + 1, 2>>, data |-> <<0, 0>> \o a.data]

\* _validate_audio(samples) under the controller's present settings: what
\* it raises or returns, what it warns of, the array before and after the
\* resampling step, and the two-channel array the level is measured on
ValidateAudio(samples) ==
    LET converted == AsFloat32(samples)
        failed(err) == [warned |-> {}, outcome |-> err, out |-> NoArray,
                        resampled |-> FALSE, before |-> NoArray, after |-> NoArray,
                        stereo |-> NoArray]
    IN  IF ExceedsRange(converted) THEN failed("ValueError: exceeds +/- 1")
        ELSE IF TooManyDims(converted) THEN failed("ValueError: dimensions")
        ELSE IF TooManyChannels(converted) THEN failed("ValueError: channels")
        ELSE
        LET before == ChannelLast(converted)
            resamp == fs_mismatch(stim_fs, fs) /\ ~suppress_resamp
            after == IF resamp
                     THEN resample(before, NumSamples(len(before), stim_fs, fs))
                     ELSE before
            stereo == MakeStereo(after)
            ms == IF check_rms = "None" THEN {}
                  ELSE ChanMeanSquares(stereo, check_rms, fs)
            loud == check_rms # "None" /\ TooLoud(ms, stim_rms)
            quiet == check_rms # "None" /\ ~loud /\ TooQuiet(ms, stim_rms)
            warned == (IF resamp THEN {"resampling"} ELSE {})
                      \cup (IF loud THEN {"rms high"} ELSE {})
                      \cup (IF quiet THEN {"rms low"} ELSE {})
        IN  [warned |-> warned,
             outcome |-> IF loud THEN "UserWarning" ELSE "returned",
             out |-> IF loud THEN NoArray ELSE PrependLeadIn(stereo),
             resampled |-> resamp,
             before |-> before,
             after |-> after,
             stereo |-> stereo]

\* the inputs: waveforms, one per channel
Waves == {"zero", "half", "ramp", "double", "loud", "over", "clip"}
\* sample i of a waveform: silence, half the stated RMS, 0.02, -0.02, 0.015
\* ..., twice the stated RMS, three times the stated RMS, a value float32
\* rounds down to full scale, and a value beyond full scale
Wave(w, i) ==
    CASE w = "zero" -> 0
      [] w = "half" -> IF i % 2 = 1 THEN 2 ELSE -2
      [] w = "ramp" -> IF i = 1 THEN 8 ELSE IF i = 2 THEN -8
                       ELSE IF i = 3 THEN 6 ELSE -6
      [] w = "double" -> IF i % 2 = 1 THEN 8 ELSE -8
      [] w = "loud" -> 12
      [] w = "over" -> IF i = 1 THEN FullScale + 1 ELSE -FullScale
      [] OTHER -> IF i = 1 THEN -(FullScale + 2) ELSE 0
\* the longest dimension of an input
MaxLen == 3
Mono(w, n) == [shape |-> <<n>>, data |-> [i \in 1..n |-> Wave(w, i)]]
\* the a x b array whose column c holds waveform ws[c]
Grid(ws, a, b) ==
    [shape |-> <<a, b>>,
     data |-> [k \in 1..(a * b) |-> Wave(ws[((k - 1) % b) + 1], ((k - 1) \div b) + 1)]]
Inputs1D == {Mono(w, n) : w \in Waves, n \in 1..MaxLen}
Inputs2D ==
    UNION {{Grid(ws, a, b) : ws \in [1..b -> Waves]} : a \in 1..MaxLen, b \in 1..MaxLen}
Inputs3D == {[shape |-> <<1, 1, a.shape[1]>>, data |-> a.data] : a \in Inputs1D}
Inputs == Inputs1D \cup Inputs2D \cup Inputs3D
\* the device's rate, and the rates a stimulus may have: the same, half a
\* Hz and one Hz below, and three quarters
DeviceFs == 400
StimRates == {DeviceFs, DeviceFs - 1, DeviceFs - 2, 300}
RmsModes == {"None", "wholefile", "windowed"}

NoValidation == [warned |-> {}, outcome |-> "none", out |-> NoArray,
                 resampled |-> FALSE, before |-> NoArray, after |-> NoArray,
                 stereo |-> NoArray]
\* the windowed measure is defined on channels of at least one window
Measurable(v) ==
    check_rms = "windowed" /\ v.stereo # NoArray
        => v.stereo.shape[1] >= WinLength(fs)

\* the call of _validate_audio(samples) on the samples at hand
validate_audio ==
    \E v \in {ValidateAudio(va_call.samples)} :
            /\ va_call.samples # NoArray
            /\ va_call.va = NoValidation
            /\ Measurable(v)
            /\ va_call' = [va_call EXCEPT !.va = v]
            /\ va_again' = NoValidation
            /\ UNCHANGED <<lifeVars, flipVars, clockVars, has_data_file, now, audioCfg,
                           stim_db, noise_db, stim_scaler, noise_level,
                           ac_buffer, lb_call>>

\* a call of _validate_audio on the buffer the last call returned
validate_again ==
    /\ va_call.va.outcome = "returned"
    /\ va_again = NoValidation
    /\ \E v \in {ValidateAudio(va_call.va.out)} :
           /\ Measurable(v)
           /\ va_again' = v
    /\ UNCHANGED <<lifeVars, flipVars, clockVars, has_data_file, now, audioCfg,
                   stim_db, noise_db, stim_scaler, noise_level,
                   ac_buffer, va_call, lb_call>>

\* ----------------------------------------------------- level calibration
\* Levels are whole dB. A gain is the fraction <<numerator, denominator>>;
\* it is rational when the target level is a whole number of decades
\* (20 dB) from the device's reference level, which is what the calls here
\* ask for.

AudioTypes == {"RM1", "RZ6", "pyo", "RX8"}
\* the decades below the reference level a call may ask for
MaxDecades == 1
Decades == (-1)..MaxDecades

\* _get_dev_db(audio_controller)
get_dev_db(audio_controller) ==
    CASE audio_controller = "RM1" -> 108
      [] audio_controller = "RP2" -> 108
      [] audio_controller = "RZ6" -> 114
      [] audio_controller \in {"pyo", "psychopy"} -> 90
      [] OTHER -> 90
\* psylog.warn('Unknown audio controller: ...')
dev_db_warns(audio_controller) ==
    audio_controller \notin {"RM1", "RP2", "RZ6", "pyo", "psychopy"}

RECURSIVE Pow10(_)
Pow10(k) == IF k = 0 THEN 1 ELSE 10 * Pow10(k - 1)

\* a gain that multiplies by the source RMS
ScalerTimesRms(desired_db, orig_rms, audio_controller) ==
    LET k == (-(get_dev_db(audio_controller) - desired_db)) \div 20
    IN  IF k >= 0 THEN <<Pow10(k) * orig_rms, FullScale>>
        ELSE <<orig_rms, FullScale * Pow10(-k)>>
\* _update_sound_scaler(desired_db, orig_rms):
\* 10 ** (-(_get_dev_db(self._audio_type) - desired_db) / 20.0) / orig_rms,
\* with orig_rms in sample units
update_sound_scaler(desired_db, orig_rms, audio_controller) ==
    LET k == (-(get_dev_db(audio_controller) - desired_db)) \div 20
    IN  IF k >= 0 THEN <<Pow10(k) * FullScale, orig_rms>>
        ELSE <<FullScale, orig_rms * Pow10(-k)>>

\* the RMS the noise gain is computed for: 1.0
NoiseRms == FullScale
\* the levels a call may ask for on the present device
NewDbs == {get_dev_db(audio_type) - 20 * d : d \in Decades}

NoLoad == [op |-> "none", samples |-> NoArray, va |-> NoValidation,
           passed |-> FALSE, new_db |-> 0, dev_warned |-> FALSE]
NoBuffer == [shape |-> <<>>, data |-> <<>>, den |-> 1]
\* a load that hands the samples on as they are
Unscaled(a, gain) == [shape |-> a.shape, data |-> a.data, den |-> 1]
\* samples * self._stim_scaler: the numerators over one denominator
Scaled(a, gain) ==
    [shape |-> a.shape,
     data |-> [k \in DOMAIN a.data |-> a.data[k] * gain[1]],
     den |-> gain[2]]

\* set_stim_db(new_db)
set_stim_db ==
    \E new_db \in NewDbs :
        /\ stim_db' = new_db
        /\ stim_scaler' = update_sound_scaler(new_db, stim_rms, audio_type)
        /\ lb_call' = [NoLoad EXCEPT !.op = "set_stim_db", !.new_db = new_db,
                                     !.dev_warned = dev_db_warns(audio_type)]
        /\ UNCHANGED <<lifeVars, flipVars, clockVars, has_data_file, now, audioCfg,
                       noise_db, noise_level, ac_buffer, va_call, va_again>>

\* set_noise_db(new_db)
set_noise_db ==
    \E new_db \in NewDbs :
        /\ noise_level' = update_sound_scaler(new_db, NoiseRms, audio_type)
        /\ noise_db' = new_db
        /\ lb_call' = [NoLoad EXCEPT !.op = "set_noise_db", !.new_db = new_db,
                                     !.dev_warned = dev_db_warns(audio_type)]
        /\ UNCHANGED <<lifeVars, flipVars, clockVars, has_data_file, now, audioCfg,
                       stim_db, stim_scaler, ac_buffer, va_call, va_again>>

\* set_rms_checking(check_rms)
set_rms_checking ==
    \E mode \in RmsModes :
        /\ check_rms' = mode
        /\ lb_call' = [NoLoad EXCEPT !.op = "set_rms_checking"]
        /\ UNCHANGED <<lifeVars, flipVars, clockVars, has_data_file, now, stim_fs, fs,
                       suppress_resamp, stim_rms, audio_type, stim_db,
                       noise_db, stim_scaler, noise_level, ac_buffer,
                       va_call, va_again>>

\* the buffers the experiment loads: one or two channels of a few frames
LoadWaves == {"zero", "ramp", "double", "loud", "clip"}
LoadInputs ==
    {Mono(w, MaxLen) : w \in LoadWaves}
        \cup {Grid(<<"ramp", "zero">>, MaxLen, 2),
              Grid(<<"ramp", "zero", "zero">>, MaxLen, 3)}

\* a load that goes on to the device whatever _validate_audio did
LoadsAnyway(v) == TRUE
\* load_buffer has no handler: it goes on to scale the samples and to call
\* self._ac.load_buffer only if _validate_audio returned
ReachesDevice(v) == v.outcome = "returned"

\* load_buffer(samples): validate, scale, hand to the device
load_buffer ==
    \E samples \in LoadInputs :
        \E v \in {ValidateAudio(samples)} :
            /\ Measurable(v)
            /\ lb_call' = [NoLoad EXCEPT !.op = "load_buffer",
                                         !.samples = samples, !.va = v,
                                         !.passed = (v.outcome = "returned")]
            /\ ac_buffer' = IF ReachesDevice(v)
                            THEN Scaled(v.out, stim_scaler)
                            ELSE ac_buffer
            /\ UNCHANGED <<lifeVars, flipVars, clockVars, has_data_file, now, audioCfg,
                           stim_db, noise_db, stim_scaler, noise_level,
                           va_call, va_again>>

\* the audio state after __init__ with the given arguments: the gains set
\* by set_stim_db and set_noise_db, nothing loaded
AudioInit(samples, rate, suppress, mode, rms, type, sdb, ndb) ==
    /\ stim_fs = rate
    /\ fs = DeviceFs
    /\ suppress_resamp = suppress
    /\ check_rms = mode
    /\ stim_rms = rms
    /\ audio_type = type
    /\ stim_db = sdb
    /\ noise_db = ndb
    /\ stim_scaler = update_sound_scaler(sdb, rms, type)
    /\ noise_level = update_sound_scaler(ndb, NoiseRms, type)
    /\ ac_buffer = NoBuffer
    /\ va_call = [samples |-> samples, va |-> NoValidation]
    /\ va_again = NoValidation
    /\ lb_call = NoLoad

\* ------------------------------------------------------ trigger stamping
\* self._trigger_handler is a ParallelTrigger or the TDTController; both
\* are outside this file. As the specification describes it, the handler
\* fails at once if its channel is unavailable, and else sends each code
\* in order, waiting the delay between two codes, before it returns.

\* the codes a list may hold, and the longest list
Codes == {3, 7, 12}
MaxCodes == 3
CodeLists == UNION {[1..n -> Codes] : n \in 0..MaxCodes}

\* a stamp_triggers that logs before it calls the handler
LogThenStamp == <<"log", "handler">>
\* stamp_triggers: self._trigger_handler.stamp_triggers(trigger_list, delay),
\* then psylog.exp('Expyfun: Stamped: ' + str(trigger_list))
StampOrder == <<"handler", "log">>

\* a handler that starts to send whatever the state of its channel
SendsUnchecked(available) == TRUE
\* the handler goes on to send only if its channel is available
ChannelReady(available) == available

NoStamp == [steps |-> <<>>, outcome |-> "none", codes |-> <<>>, at |-> 0,
            checked |-> FALSE, sent |-> 0]
\* the statement stamp_triggers is at
StampStmt == IF tr_call.at \in 1..Len(StampOrder) THEN StampOrder[tr_call.at]
             ELSE IF tr_call.at > Len(StampOrder) THEN "return" ELSE "idle"

\* stamp_triggers(trigger_list, delay) is called
stamp_triggers ==
    \E trigger_list \in CodeLists :
        /\ tr_call.at = 0
        /\ tr_call' = [NoStamp EXCEPT !.codes = trigger_list, !.at = 1]
        /\ UNCHANGED <<flipVars, clockVars, has_data_file, now, audioVars,
                       tr_chan, wu_call, init_call, exitVars>>

\* the handler finds its channel unavailable: the call raises
TrigUnavailable ==
    /\ StampStmt = "handler"
    /\ ~tr_call.checked
    /\ ~ChannelReady(tr_chan)
    /\ tr_call' = [tr_call EXCEPT !.at = 0, !.outcome = "raised"]
    /\ UNCHANGED <<flipVars, clockVars, has_data_file, now, audioVars,
                   tr_chan, wu_call, init_call, exitVars>>

\* the handler finds its channel and starts
TrigReady ==
    /\ StampStmt = "handler"
    /\ ~tr_call.checked
    /\ ChannelReady(tr_chan)
    /\ tr_call' = [tr_call EXCEPT !.checked = TRUE]
    /\ UNCHANGED <<flipVars, clockVars, has_data_file, now, audioVars,
                   tr_chan, wu_call, init_call, exitVars>>

\* the handler sends the next code, and waits if another follows
TrigSend ==
    /\ StampStmt = "handler"
    /\ tr_call.checked
    /\ tr_call.sent < Len(tr_call.codes)
    /\ LET code == tr_call.codes[tr_call.sent + 1]
           send == <<[op |-> "send", code |-> code, on |-> tr_chan]>>
           wait == IF tr_call.sent + 1 < Len(tr_call.codes)
                   THEN <<[op |-> "wait", code |-> code, on |-> tr_chan]>>
                   ELSE <<>>
       IN  tr_call' = [tr_call EXCEPT !.sent = @ + 1,
                                      !.steps = @ \o send \o wait]
    /\ UNCHANGED <<flipVars, clockVars, has_data_file, now, audioVars,
                   tr_chan, wu_call, init_call, exitVars>>

\* the handler has sent every code and returns
TrigHandlerReturns ==
    /\ StampStmt = "handler"
    /\ tr_call.checked
    /\ tr_call.sent = Len(tr_call.codes)
    /\ tr_call' = [tr_call EXCEPT !.at = @ + 1, !.checked = FALSE]
    /\ UNCHANGED <<flipVars, clockVars, has_data_file, now, audioVars,
                   tr_chan, wu_call, init_call, exitVars>>

\* psylog.exp('Expyfun: Stamped: ' + str(trigger_list))
TrigLog ==
    /\ StampStmt = "log"
    /\ tr_call' = [tr_call EXCEPT
                       !.at = @ + 1,
                       !.steps = Append(@, [op |-> "log", code |-> 0,
                                            on |-> tr_chan])]
    /\ UNCHANGED <<flipVars, clockVars, has_data_file, now, audioVars,
                   tr_chan, wu_call, init_call, exitVars>>

\* stamp_triggers returns
TrigReturn ==
    /\ StampStmt = "return"
    /\ tr_call' = [tr_call EXCEPT !.at = 0, !.outcome = "returned"]
    /\ UNCHANGED <<flipVars, clockVars, has_data_file, now, audioVars,
                   tr_chan, wu_call, init_call, exitVars>>

\* the trigger channel before the first call
TrigIdle(available) ==
    /\ tr_chan = available
    /\ tr_call = NoStamp

\* ------------------------------------------------------------ wait_until
\* the latest timestamp a call is given
MaxStamp == 10

NoWait == [ret |-> 0, timestamp |-> NoTime, warned |-> FALSE,
           called_at |-> NoTime, waits |-> <<>>]

\* a test that counts the present moment as passed
PassedOrNow(time_left) == time_left <= 0
\* if time_left < 0
Passed(time_left) == time_left < 0

\* wait_until(timestamp); wait_secs(time_left) returns time_left later
wait_until ==
    \E timestamp \in 0..MaxStamp :
        LET time_left == timestamp - now
        IN  /\ wu_call' = [ret |-> time_left,
                           timestamp |-> timestamp,
                           warned |-> Passed(time_left),
                           called_at |-> now,
                           waits |-> IF Passed(time_left) THEN <<>>
                                     ELSE <<time_left>>]
            /\ now' = IF Passed(time_left) THEN now ELSE now + time_left
            /\ UNCHANGED <<flipVars, clockVars, has_data_file, audioVars,
                           tr_chan, tr_call, init_call, exitVars>>

\* ---------------------------------------------------------- construction
\* The arguments of __init__ that select devices. A string or dict argument
\* is given by the type it names; "other" is neither None, a string nor a
\* dict. get_config gives the defaults the code names.
AudioArgs == {[type |-> "", kind |-> "none"],
              [type |-> "pyo", kind |-> "str"],
              [type |-> "psychopy", kind |-> "str"],
              [type |-> "tdt", kind |-> "str"],
              [type |-> "alsa", kind |-> "str"],
              [type |-> "pyo", kind |-> "dict"],
              [type |-> "tdt", kind |-> "dict"],
              [type |-> "alsa", kind |-> "dict"],
              [type |-> "", kind |-> "other"]}
ResponseArgs == {"None", "keyboard", "tdt", "mouse"}
TriggerArgs == {"None", "dummy", "parallel", "tdt", "serial"}

\* __init__ from the parsing of audio_controller on: the devices it sets
\* up, in order, and how it ends
Construct(audio_controller, response_device, trigger_controller) ==
    LET audio_error ==
            IF audio_controller.kind = "str"
                   /\ audio_controller.type \notin {"pyo", "psychopy", "tdt"}
            THEN "ValueError: audio_controller"
            ELSE IF audio_controller.kind = "other"
            THEN "TypeError: audio_controller"
            ELSE "none"
        type_lower == IF audio_controller.kind = "none" THEN "pyo"
                      ELSE audio_controller.type
        response == IF response_device = "None" THEN "keyboard"
                    ELSE response_device
        tdt_init == type_lower = "tdt"
        trigger == IF trigger_controller = "None" THEN "dummy"
                   ELSE trigger_controller
        ends(set_up, how) == [steps |-> set_up, outcome |-> how]
    IN  IF audio_error # "none" THEN ends(<<>>, audio_error)
        ELSE IF response \notin {"keyboard", "tdt"}
        THEN ends(<<>>, "ValueError: response_device")
        ELSE IF type_lower \notin {"tdt", "pyo", "psychopy"}
        THEN ends(<<>>, "ValueError: audio_controller['TYPE']")
        ELSE
        LET audio == <<IF tdt_init THEN "TDTController" ELSE "PyoSound",
                       "set_stim_db", "set_noise_db">>
            window == audio \o <<"_setup_window">>
        IN  IF response = "tdt" /\ ~tdt_init
            THEN ends(window, "ValueError: response_device tdt without tdt audio")
            ELSE
            LET responded == window \o (IF response = "keyboard"
                                        THEN <<"Keyboard">> ELSE <<>>)
            IN  IF trigger = "tdt" /\ ~tdt_init
                THEN ends(responded,
                          "ValueError: trigger_controller tdt without tdt audio")
                ELSE IF trigger \notin {"tdt", "parallel", "dummy"}
                THEN ends(responded, "ValueError: trigger_controller")
                ELSE ends(responded
                              \o (IF trigger = "tdt" THEN <<>>
                                  ELSE <<"ParallelTrigger">>)
                              \o <<"Mouse">>,
                          "constructed")

NoConstruct == [steps |-> <<>>, outcome |-> "none"]
NoArgs == [audio_controller |-> [type |-> "", kind |-> "none"],
           response_device |-> "None", trigger_controller |-> "None"]

\* ExperimentController(...) is called with the arguments at hand
construct ==
    /\ init_call.done = NoConstruct
    /\ init_call' =
           [init_call EXCEPT !.done = Construct(init_call.args.audio_controller,
                                                init_call.args.response_device,
                                                init_call.args.trigger_controller)]
    /\ UNCHANGED <<flipVars, clockVars, has_data_file, now, audioVars,
                   tr_chan, tr_call, wu_call, exitVars>>

\* -------------------------------------------------------------- teardown
\* An event thread is an object with stop() and running. stop() sets
\* running to 0, and the thread sets it to -1 when it has finished polling;
\* 1 is a thread that polls.

\* the most event threads alive, and the most operations that fail
MaxThreads == 2
MaxFails == 2
RunningValues == {-1, 0, 1}
\* what may raise an Exception during teardown
FailOps == {"stop_noise", "stop", "halt", "win_close", "data_file_close",
            "trigger_close", "thread_stop"}

\* cleanup_actions, as __exit__ builds the list
CleanupActions ==
    <<"stop_noise", "stop", "halt", "win_close">>
        \o (IF has_data_file THEN <<"data_file_close">> ELSE <<>>)
        \o extra_cleanup_fun

\* a loop that gives up at the first action that raises
Break(todo) == <<>>
\* except Exception: print exc; continue
Continue(todo) == Tail(todo)

\* a wait that never waits
NeverWaits(running) == FALSE
\* a wait for the thread to poll again
WaitsForPolling(running) == running # 1
\* while thisThread.running == 0: pass
Waits(running) == running = 0

ExitStep(op, part, raised, thread) ==
    [op |-> op, part |-> part, raised |-> raised, thread |-> thread]

\* __exit__(err_type, value, traceback) is entered
EnterExit(err) ==
    /\ ex_pc = "none"
    /\ ex_pc' = "cleanup"
    /\ ex_err' = err
    /\ ex_todo' = CleanupActions
    /\ UNCHANGED <<flipVars, clockVars, has_data_file, now, audioVars,
                   tr_chan, tr_call, wu_call, init_call, extra_cleanup_fun,
                   ex_fails, ex_steps, ex_result, th_running, th_todo>>

\* close(): self.__exit__(None, None, None)
close == EnterExit(FALSE)
\* __exit__ at the end of a with block that raised
exit_on_error == EnterExit(TRUE)

\* for action in cleanup_actions: try: action()
ExitAction ==
    /\ ex_pc = "cleanup"
    /\ ex_todo # <<>>
    /\ LET raised == Head(ex_todo) \in ex_fails
       IN  /\ ex_steps' = Append(ex_steps,
                                 ExitStep(Head(ex_todo), "cleanup", raised, 0))
           /\ ex_todo' = IF raised THEN Continue(ex_todo) ELSE Tail(ex_todo)
    /\ UNCHANGED <<flipVars, clockVars, has_data_file, now, audioVars,
                   tr_chan, tr_call, wu_call, init_call, extra_cleanup_fun,
                   ex_pc, ex_err, ex_fails, ex_result, th_running, th_todo>>

\* try: self._win.close(), then threading.enumerate()
ExitWinClose ==
    /\ ex_pc = "cleanup"
    /\ ex_todo = <<>>
    /\ LET raised == "win_close" \in ex_fails
       IN  /\ ex_steps' = Append(ex_steps, ExitStep("win_close", "api", raised, 0))
           /\ ex_pc' = IF raised THEN "reraise" ELSE "threads"
           /\ th_todo' = IF raised THEN <<>>
                         ELSE [i \in 1..Len(th_running) |-> i]
    /\ UNCHANGED <<flipVars, clockVars, has_data_file, now, audioVars,
                   tr_chan, tr_call, wu_call, init_call, extra_cleanup_fun,
                   ex_err, ex_fails, ex_todo, ex_result, th_running>>

\* thisThread.stop()
ExitStopThread ==
    /\ ex_pc = "threads"
    /\ th_todo # <<>>
    /\ LET raised == "thread_stop" \in ex_fails
           thread == Head(th_todo)
       IN  /\ ex_steps' = Append(ex_steps,
                                 ExitStep("thread_stop", "api", raised, thread))
           /\ ex_pc' = IF raised THEN "reraise" ELSE "wait"
           /\ th_running' = IF raised THEN th_running
                            ELSE [th_running EXCEPT ![thread] = 0]
    /\ UNCHANGED <<flipVars, clockVars, has_data_file, now, audioVars,
                   tr_chan, tr_call, wu_call, init_call, extra_cleanup_fun,
                   ex_err, ex_fails, ex_todo, ex_result, th_todo>>

\* the wait loop finds running other than 0 and is left
ExitWaited ==
    /\ ex_pc = "wait"
    /\ ~Waits(th_running[Head(th_todo)])
    /\ ex_steps' = Append(ex_steps,
                          ExitStep("waited", "api", FALSE, Head(th_todo)))
    /\ th_todo' = Tail(th_todo)
    /\ ex_pc' = "threads"
    /\ UNCHANGED <<flipVars, clockVars, has_data_file, now, audioVars,
                   tr_chan, tr_call, wu_call, init_call, extra_cleanup_fun,
                   ex_err, ex_fails, ex_todo, ex_result, th_running>>

\* the loop over the threads ends
ExitThreadsDone ==
    /\ ex_pc = "threads"
    /\ th_todo = <<>>
    /\ ex_pc' = "reraise"
    /\ UNCHANGED <<flipVars, clockVars, has_data_file, now, audioVars,
                   tr_chan, tr_call, wu_call, init_call, extra_cleanup_fun,
                   ex_err, ex_fails, ex_todo, ex_steps, ex_result, th_running,
                   th_todo>>

\* if any(x is not None ...): raise err_type, value, traceback
ExitEnd ==
    /\ ex_pc = "reraise"
    /\ ex_pc' = "done"
    /\ ex_result' = IF ex_err THEN "raised" ELSE "returned"
    /\ UNCHANGED <<flipVars, clockVars, has_data_file, now, audioVars,
                   tr_chan, tr_call, wu_call, init_call, extra_cleanup_fun,
                   ex_err, ex_fails, ex_todo, ex_steps, th_running, th_todo>>

\* an event thread that was told to stop finishes polling
ThreadFinishes ==
    \E thread \in 1..Len(th_running) :
        /\ th_running[thread] = 0
        /\ th_running' = [th_running EXCEPT ![thread] = -1]
        /\ UNCHANGED <<flipVars, clockVars, has_data_file, now, audioVars,
                       tr_chan, tr_call, wu_call, init_call,
                       extra_cleanup_fun, ex_pc, ex_err, ex_fails, ex_todo,
                       ex_steps, ex_result, th_todo>>

\* the controller before teardown: the extra cleanups registered, the event
\* threads alive and the operations that will raise
ExitIdle(extras, running, fails) ==
    /\ extra_cleanup_fun = extras
    /\ ex_pc = "none"
    /\ ex_err = FALSE
    /\ ex_fails = fails
    /\ ex_todo = <<>>
    /\ ex_steps = <<>>
    /\ ex_result = "none"
    /\ th_running = running
    /\ th_todo = <<>>

\* a controller with a dummy trigger, no event thread, nothing called yet
LifeIdle ==
    /\ TrigIdle(TRUE)
    /\ wu_call = NoWait
    /\ init_call = [done |-> NoConstruct, args |-> NoArgs]
    /\ ExitIdle(<<"trigger_close">>, <<>>, {})

\* ------------------------------------------------------- specifications
NoCall == [ret |-> 0, master |-> 0, aux |-> 0, clock_type |-> "",
           baseline |-> 0, first |-> FALSE, warned |-> FALSE]

\* the flip and clock state after __init__: empty callback lists, no
\* baseline stored
InitFlipClock ==
    /\ on_next_flip = <<>>
    /\ on_every_flip = <<>>
    /\ data_file = <<>>
    /\ now = 0
    /\ pc = 0
    /\ entry = "none"
    /\ call_list = <<>>
    /\ idx = 0
    /\ flip_time = NoTime
    /\ result = "none"
    /\ ret = NoTime
    /\ n_reg = 0
    /\ registered = [i \in Ids |-> "none"]
    /\ during = [i \in Ids |-> 0]
    /\ n_flips = 0
    /\ steps = <<>>
    /\ ran_in = [i \in Ids |-> {}]
    /\ every_before = <<>>
    /\ time_corrections = <<>>
    /\ tc_call = NoCall

\* the stated RMS values and levels __init__ is given
StimRmsChoices == {DefaultStimRms, 2 * DefaultStimRms}

\* the controller after __init__: a data file unless output_dir is None (its
\* header lines are left out), stimuli at the device's rate, windowed RMS
\* checking, levels two and three decades below the reference level
Init ==
    /\ InitFlipClock
    /\ LifeIdle
    /\ has_data_file \in BOOLEAN
    /\ AudioInit(NoArray, DeviceFs, FALSE, "windowed", DefaultStimRms, "pyo",
                 50, 30)

\* the controller after __init__ for each stimulus rate, resampling policy
\* and RMS check, with the samples _validate_audio is about to be given
InitValidate ==
    /\ InitFlipClock
    /\ LifeIdle
    /\ has_data_file = FALSE
    /\ \E samples \in Inputs, rate \in StimRates, suppress \in BOOLEAN,
          mode \in RmsModes :
           AudioInit(samples, rate, suppress, mode, DefaultStimRms, "pyo",
                     50, 30)

\* the controller after __init__ for each device and stated RMS
InitAudio ==
    /\ InitFlipClock
    /\ LifeIdle
    /\ has_data_file = FALSE
    /\ \E rms \in StimRmsChoices, type \in AudioTypes :
           AudioInit(NoArray, DeviceFs, FALSE, "windowed", rms, type,
                     get_dev_db(type) - 20, get_dev_db(type) - 20)

FlipNext ==
    \/ call_on_next_flip
    \/ clear_next_flip
    \/ call_on_every_flip
    \/ clear_every_flip
    \/ flip
    \/ flip_and_play
    \/ FlipCallList
    \/ FlipWinFlip
    \/ FlipGlFinish
    \/ FlipClock
    \/ CallPlay
    \/ CallReturns
    \/ CallRegisters
    \/ CallRaises
    \/ FlipLoopDone
    \/ FlipGlClear
    \/ FlipWriteDataLine
    \/ FlipClearNext
    \/ FlipReturn
    \/ Tick

ClockNext ==
    \/ get_time_correction
    \/ Tick

\* the audio state of each specification below: the defaults of Init
AudioDefaults ==
    AudioInit(NoArray, DeviceFs, FALSE, "windowed", DefaultStimRms, "pyo",
              50, 30)

\* the controller with its trigger channel available or not
InitTrigger ==
    /\ InitFlipClock
    /\ has_data_file = FALSE
    /\ AudioDefaults
    /\ \E available \in BOOLEAN : TrigIdle(available)
    /\ wu_call = NoWait
    /\ init_call = [done |-> NoConstruct, args |-> NoArgs]
    /\ ExitIdle(<<"trigger_close">>, <<>>, {})

\* __init__ about to be called, for each selection of devices
InitConstruct ==
    /\ InitFlipClock
    /\ has_data_file = FALSE
    /\ AudioDefaults
    /\ TrigIdle(TRUE)
    /\ wu_call = NoWait
    /\ \E a \in AudioArgs, r \in ResponseArgs, t \in TriggerArgs :
           init_call = [done |-> NoConstruct,
                        args |-> [audio_controller |-> a,
                                  response_device |-> r,
                                  trigger_controller |-> t]]
    /\ ExitIdle(<<"trigger_close">>, <<>>, {})

\* the controller before teardown, for each set of event threads, each
\* choice of a data file and a trigger to close, and each set of at most
\* MaxFails operations that raise
InitClose ==
    /\ InitFlipClock
    /\ has_data_file \in BOOLEAN
    /\ AudioDefaults
    /\ TrigIdle(TRUE)
    /\ wu_call = NoWait
    /\ init_call = [done |-> NoConstruct, args |-> NoArgs]
    /\ \E extras \in {<<>>, <<"trigger_close">>},
          n \in 0..MaxThreads,
          fails \in {f \in SUBSET FailOps : Cardinality(f) <= MaxFails} :
           \E running \in [1..n -> RunningValues] :
               ExitIdle(extras, running, fails)

TriggerNext ==
    \/ stamp_triggers
    \/ TrigUnavailable
    \/ TrigReady
    \/ TrigSend
    \/ TrigHandlerReturns
    \/ TrigLog
    \/ TrigReturn

WaitNext ==
    \/ wait_until
    \/ Tick

ConstructNext == construct

CloseNext ==
    \/ close
    \/ exit_on_error
    \/ ExitAction
    \/ ExitWinClose
    \/ ExitStopThread
    \/ ExitWaited
    \/ ExitThreadsDone
    \/ ExitEnd
    \/ ThreadFinishes

ValidateNext ==
    \/ validate_audio
    \/ validate_again

AudioNext ==
    \/ load_buffer
    \/ set_stim_db
    \/ set_noise_db
    \/ set_rms_checking

Next ==
    \/ FlipNext
    \/ ClockNext
    \/ ValidateNext
    \/ AudioNext
    \/ TriggerNext
    \/ WaitNext
    \/ ConstructNext
    \/ CloseNext

\* the flip scheduler alone
SpecFlip == Init /\ [][FlipNext]_vars
\* the clock reconciliation alone
SpecClock == Init /\ [][ClockNext]_vars
SpecValidate == InitValidate /\ [][ValidateNext]_vars
SpecAudio == InitAudio /\ [][AudioNext]_vars
SpecTrigger == InitTrigger /\ [][TriggerNext]_vars
SpecWait == Init /\ [][WaitNext]_vars
SpecConstruct == InitConstruct /\ [][ConstructNext]_vars
SpecClose == InitClose /\ [][CloseNext]_vars

\* the statements of __exit__: the main thread goes on while it can
ExitRuns ==
    \/ ExitAction
    \/ ExitWinClose
    \/ ExitStopThread
    \/ ExitWaited
    \/ ExitThreadsDone
    \/ ExitEnd
\* teardown with a main thread that keeps running and event threads that
\* finish polling once they are told to stop
SpecCloseFair ==
    /\ InitClose
    /\ [][CloseNext]_vars
    /\ WF_vars(ExitRuns)
    /\ WF_vars(ThreadFinishes)
Spec == Init /\ [][Next]_vars

\* =================================================================== claims
\* positions of steps at which a callback was called
CallIdx == {i \in 1..Len(steps) : steps[i].op = "call"}
IsPlay(i) == steps[i].cb = PLAY
\* the call at position i is of a callback of the next-flip list
IsNextCall(i) == IsPlay(i) \/ registered[steps[i].cb] = "next"
\* the call at position i is of a callback of the every-flip list
IsEveryCall(i) == ~IsPlay(i) /\ registered[steps[i].cb] = "every"
Before(a, i) == \E j \in 1..(i - 1) : steps[j].op = a
IsPrefix(s, t) == Len(s) <= Len(t) /\ \A i \in 1..Len(s) : s[i] = t[i]
Range(s) == {s[i] : i \in 1..Len(s)}

\* C1: in the flip of a flip_and_play() the first callback called is _play, no
\* other next-flip callback is called before a _play, and the other next-flip
\* callbacks are called in the order of their registration.
C1_PlayFirstThenRegistrationOrder ==
    entry = "flip_and_play" =>
        /\ \A i \in CallIdx : (\A j \in CallIdx : i <= j) => IsPlay(i)
        /\ \A i, j \in CallIdx :
              (i < j /\ IsNextCall(i) /\ IsNextCall(j)) =>
                  /\ IsPlay(j) => IsPlay(i)
                  /\ (~IsPlay(i) /\ ~IsPlay(j)) => steps[i].cb < steps[j].cb

\* a flip_and_play() has returned after calling _play and two callbacks that
\* were registered with call_on_next_flip
C1_Witness ==
    /\ entry = "flip_and_play"
    /\ result = "returned"
    /\ \E i, j, k \in CallIdx :
          /\ i < j /\ j < k
          /\ IsPlay(i)
          /\ ~IsPlay(j) /\ IsNextCall(j)
          /\ ~IsPlay(k) /\ IsNextCall(k)

C3_OnceRunsInOneFlip ==
    /\ (pc = 0 /\ result = "returned") =>
           on_next_flip = <<>> /\ on_every_flip = every_before
    /\ \A id \in Ids :
           registered[id] = "next" => Cardinality(ran_in[id]) <= 1

\* the statements of the current flip, without its callback calls
Statements ==
    LET Named(e) == e.op \in {"win_flip", "glFinish", "clock", "glClear",
                              "write_data_line", "clear_next"}
        s == SelectSeq(steps, Named)
    IN  [i \in 1..Len(s) |-> s[i].op]

\* the statements of a flip follow `order`, and every callback is called
\* between the clock reading and the statements that follow it in `order`
FollowsOrder(order) ==
    /\ IsPrefix(Statements, order)
    /\ \A i \in CallIdx :
          /\ Before("clock", i)
          /\ ~Before("glClear", i)
          /\ ~Before("write_data_line", i)
          /\ ~Before("clear_next", i)
    /\ \A i, j \in CallIdx : (i < j /\ IsEveryCall(i)) => IsEveryCall(j)

\* C4 as stated: swap, barrier, timestamp, next-flip callbacks, every-flip
\* callbacks, clearing of the next-flip list, clearing of the frame buffer,
\* flip event line.
C4_ClearNextBeforeGlClear ==
    FollowsOrder(<<"win_flip", "glFinish", "clock", "clear_next", "glClear",
                   "write_data_line">>)

\* C4 (amended): swap, barrier, timestamp, next-flip callbacks, every-flip
\* callbacks, clearing of the frame buffer, flip event line, and only then
\* clearing of the next-flip list.
C4_ClearNextLast ==
    FollowsOrder(<<"win_flip", "glFinish", "clock", "glClear",
                   "write_data_line", "clear_next">>)

\* a flip that called a next-flip and an every-flip callback has returned
C4_Witness ==
    /\ result = "returned"
    /\ Len(Statements) = 6
    /\ \E i, j \in CallIdx : IsNextCall(i) /\ IsEveryCall(j)

\* C5: the clock is read after the swap and after the barrier that follows
\* the swap, no callback is called before the clock is read, and flip_time is
\* that reading.
C5_ClockAfterSwapBeforeCallbacks ==
    /\ \A i \in 1..Len(steps) :
          steps[i].op = "clock" =>
              /\ \E a, b \in 1..(i - 1) :
                    a < b /\ steps[a].op = "win_flip" /\ steps[b].op = "glFinish"
              /\ \A j \in CallIdx : i < j
              /\ pc # 0 => flip_time = steps[i].t
    /\ \A j \in CallIdx : Before("clock", j)

\* _play has been called in a flip after the clock was read, at a later time
\* than flip_time
C5_Witness ==
    /\ pc # 0
    /\ \E i \in 1..Len(steps), j \in CallIdx :
          steps[i].op = "clock" /\ i < j /\ IsPlay(j) /\ flip_time < now

\* C6: when a callback raises, nothing of the flip is executed after it, flip
\* (or flip_and_play) is left with the exception and no value is returned.
C6_CallbackFailurePropagates ==
    /\ \A i \in 1..Len(steps) :
          steps[i].op = "raise" =>
              /\ i = Len(steps)
              /\ steps[i - 1].op = "call"
              /\ pc = 0
              /\ result = "raised"
              /\ ret = NoTime
    /\ result = "raised" => (steps # <<>> /\ steps[Len(steps)].op = "raise")

\* a flip_and_play was left by an exception of a next-flip callback, with an
\* every-flip callback waiting that was not called in this flip
C6_Witness ==
    /\ result = "raised"
    /\ entry = "flip_and_play"
    /\ \E id \in Range(on_every_flip) : n_flips \notin ran_in[id]

\* the 'flip' lines the last flip wrote
FlipLines == SelectSeq(data_file, LAMBDA l : l.event_type = "flip")
\* the clock reading the last flip took
ClockReadings == {steps[i].t : i \in {k \in 1..Len(steps) : steps[k].op = "clock"}}

\* C7 as stated: every flip that returns has written exactly one 'flip' line,
\* whose value is the clock reading taken after the swap, which is returned.
C7_AlwaysOneFlipLine ==
    result = "returned" =>
        /\ Len(FlipLines) = 1
        /\ ClockReadings = {FlipLines[1].value}
        /\ ret = FlipLines[1].value

\* C7 (amended): a flip that returns has returned the clock reading taken
\* after the swap; with a data file it has written exactly one 'flip' line,
\* whose value is that reading, and without a data file it has written none.
C7_OneFlipLineIfDataFile ==
    result = "returned" =>
        /\ ClockReadings = {ret}
        /\ has_data_file => (Len(FlipLines) = 1 /\ FlipLines[1].value = ret)
        /\ ~has_data_file => data_file = <<>>

\* a flip has returned whose 'flip' line was written at a later time than the
\* clock reading it records
C7_Witness ==
    /\ result = "returned"
    /\ has_data_file
    /\ Len(FlipLines) = 1
    /\ FlipLines[1].value = ret
    /\ FlipLines[1].timestamp > ret

\* C8: a stored baseline never changes, and a baseline is stored only by the
\* call that finds none for its clock, as the offset that call measured.
C8_BaselineSetOnce ==
    [][/\ \A c \in DOMAIN time_corrections :
              /\ c \in DOMAIN time_corrections'
              /\ time_corrections'[c] = time_corrections[c]
       /\ \A c \in DOMAIN time_corrections' \ DOMAIN time_corrections :
              /\ tc_call'.clock_type = c
              /\ tc_call'.first
              /\ time_corrections'[c] = tc_call'.master - tc_call'.aux]_vars

\* a later call for a clock has measured an offset other than the baseline
C8_Witness ==
    /\ tc_call.clock_type \in DOMAIN time_corrections
    /\ ~tc_call.first
    /\ tc_call.master - tc_call.aux # time_corrections[tc_call.clock_type]

\* C9: a call returns the master clock's reading minus the auxiliary clock's.
C9_ReturnsMeasuredOffset ==
    tc_call.clock_type \in ClockIds =>
        tc_call.ret = tc_call.master - tc_call.aux

\* a call has returned an offset that is not the stored baseline
C9_Witness ==
    /\ tc_call.clock_type \in DOMAIN time_corrections
    /\ tc_call.ret # time_corrections[tc_call.clock_type]
    /\ tc_call.master > 0

\* C10: a call warns exactly when the measured offset is more than 10
\* microseconds away from the baseline, a first call does not warn, and a
\* call that warns still returns the measured offset.
C10_WarnsIffDriftOver10us ==
    tc_call.clock_type \in ClockIds =>
        LET offset == tc_call.master - tc_call.aux
            drift == offset - time_corrections[tc_call.clock_type]
        IN  /\ tc_call.warned <=> (drift > 10 \/ drift < -10)
            /\ tc_call.first => ~tc_call.warned
            /\ tc_call.warned => tc_call.ret = offset

\* a call has warned of drift and has returned an offset that is not the
\* baseline
C10_Witness ==
    /\ tc_call.clock_type \in ClockIds
    /\ tc_call.warned
    /\ tc_call.ret # tc_call.baseline

\* ------------------------------------------------- audio validation claims
\* _validate_audio has been called, and v is what came of it
Validated == va_call.va # NoValidation
Values(a) == {a.data[k] : k \in DOMAIN a.data}
\* the values of a returned buffer behind its first frame
BodyValues(out) == {out.data[k] : k \in 3..Len(out.data)}
RangeError == "ValueError: exceeds +/- 1"
ShapeErrors == {"ValueError: dimensions", "ValueError: channels"}

\* C11 as stated: an input with a sample of magnitude over 1.0 is rejected
\* with an error and no buffer; without resampling the samples of an accepted
\* input are the values of the returned buffer behind the lead-in.
C11_RejectsOverFullScale ==
    Validated =>
        /\ (\E s \in Values(va_call.samples) : AbsVal(s) > FullScale)
               => va_call.va.outcome = RangeError /\ va_call.va.out = NoArray
        /\ va_call.va.outcome = "returned" /\ ~va_call.va.resampled
               => BodyValues(va_call.va.out) = Values(va_call.samples)

\* C11: an input with a sample whose float32 value has magnitude over 1.0 is
\* rejected with an error and no buffer, and no returned buffer holds a value
\* beyond full scale; without resampling the float32 values of the samples of
\* an accepted input are the values of the returned buffer behind the lead-in.
C11_RejectsFloat32OverFullScale ==
    Validated =>
        /\ (\E s \in Values(va_call.samples) : AbsVal(Round32(s)) > FullScale)
               => va_call.va.outcome = RangeError /\ va_call.va.out = NoArray
        /\ va_call.va.outcome = "returned"
               => \A s \in Values(va_call.samples) : AbsVal(Round32(s)) <= FullScale
        /\ va_call.va.outcome = "returned" /\ ~va_call.va.resampled
               => BodyValues(va_call.va.out)
                      = {Round32(s) : s \in Values(va_call.samples)}

\* a two-channel input with a sample beyond full scale has been rejected
C11_Witness ==
    /\ Validated
    /\ va_call.samples.shape = <<MaxLen, 2>>
    /\ \E s \in Values(va_call.samples) : AbsVal(Round32(s)) > FullScale
    /\ va_call.va.outcome = RangeError

\* the channels of a 2-D input once it is channel-last: the first dimension
\* if it is at most 2 (the input is transposed), else the second
ChannelsOf(shape) == IF shape[1] <= 2 THEN shape[1] ELSE shape[2]
InRange(a) == \A s \in Values(a) : AbsVal(Round32(s)) <= FullScale

\* C12: an in-range input is rejected on shape grounds exactly if it has more
\* than two dimensions, or has two and more than two channels once it is
\* channel-last.
C12_RejectsBadShapesOnly ==
    Validated /\ InRange(va_call.samples) =>
        LET shape == va_call.samples.shape
        IN  /\ Len(shape) > 2 => va_call.va.outcome = "ValueError: dimensions"
            /\ Len(shape) = 2 /\ ChannelsOf(shape) > 2
                   => va_call.va.outcome = "ValueError: channels"
            /\ va_call.va.outcome \in ShapeErrors
                   => Len(shape) > 2 \/ (Len(shape) = 2 /\ ChannelsOf(shape) > 2)
            /\ va_call.va.outcome \in ShapeErrors => va_call.va.out = NoArray

\* a two-row input of more than two columns has been accepted
C12_Witness ==
    /\ Validated
    /\ va_call.samples.shape = <<2, MaxLen>>
    /\ va_call.va.outcome = "returned"

\* the samples per channel of an array as the stereo step reads it: all the
\* elements of a 1-D array or of a single row or column, else the rows
PerChannel(a) ==
    IF Len(a.shape) = 1 THEN a.shape[1]
    ELSE IF a.shape[1] = 1 \/ a.shape[2] = 1 THEN a.shape[1] * a.shape[2]
    ELSE a.shape[1]
IsMono(a) == Len(a.shape) = 1 \/ a.shape[1] = 1 \/ a.shape[2] = 1

Duplicated(a) == FromColumns(<<a.data, a.data>>)

\* C14: a mono buffer of N >= 1 samples and the N x 2 buffer that holds it in
\* both channels validate to the same result.
C14_MonoEqualsDuplicatedStereo ==
    Validated /\ Len(va_call.samples.shape) = 1 /\ InRange(va_call.samples) =>
        LET stereo == ValidateAudio(Duplicated(va_call.samples))
        IN  /\ stereo.outcome = va_call.va.outcome
            /\ stereo.out = va_call.va.out

\* the buffer the first call returned has been validated again
Revalidated == va_again # NoValidation

\* C15 as stated: validating a returned buffer again gives that buffer, with
\* its single lead-in frame.
C15_Idempotent ==
    Revalidated =>
        /\ va_again.outcome = "returned"
        /\ va_again.out = va_call.va.out

\* C15: a returned buffer validated again, without resampling, comes back as
\* a buffer of one frame more that starts with [0, 0]; if the first buffer
\* has more than 2 frames, it is the first buffer behind one more [0, 0]
\* frame.
C15_LeadInPerPass ==
    Revalidated /\ ~va_again.resampled /\ va_again.outcome = "returned" =>
        LET first == va_call.va.out
            second == va_again.out
        IN  /\ second.shape = <<first.shape[1] + 1, 2>>
            /\ second.data[1] = 0 /\ second.data[2] = 0
            /\ first.shape[1] > 2 => second.data = <<0, 0>> \o first.data

\* a buffer of more than 2 frames, not all silent, has been validated twice
C15_Witness ==
    /\ Revalidated
    /\ ~va_again.resampled
    /\ va_call.va.out.shape[1] > 2
    /\ va_call.va.out.data[3] # 0
    /\ va_again.outcome = "returned"

\* C16 as stated: a resampled buffer has round(len * fs / stim_fs) samples
\* per channel.
C16_RoundedLength ==
    Validated /\ va_call.va.resampled =>
        LET n == va_call.va.before.shape[1]
            m == va_call.va.after.shape[1]
        IN  /\ 2 * m * stim_fs <= 2 * n * fs + stim_fs
            /\ 2 * n * fs + stim_fs < 2 * (m + 1) * stim_fs

\* C16: a resampled buffer has the whole part of len * fs / stim_fs samples
\* per channel, and the channels it had.
C16_TruncatedLength ==
    Validated /\ va_call.va.resampled =>
        LET n == va_call.va.before.shape[1]
            m == va_call.va.after.shape[1]
        IN  /\ m * stim_fs <= n * fs
            /\ n * fs < (m + 1) * stim_fs
            /\ Tail(va_call.va.after.shape) = Tail(va_call.va.before.shape)

\* two samples at three quarters of the device's rate have become two, where
\* len * fs / stim_fs is 2.67
C16_Witness ==
    /\ Validated
    /\ va_call.va.resampled
    /\ 3 * fs = 4 * stim_fs
    /\ va_call.va.before.shape = <<2>>
    /\ va_call.va.after.shape = <<2>>

\* the input has passed the range and shape tests
ShapeOk == Validated /\ va_call.va.before # NoArray

\* C17 as stated: the buffer is resampled, and the resampling reported, exactly
\* if the rates differ and resampling is not suppressed; otherwise the samples
\* pass through unchanged.
C17_ResamplesIffRatesDiffer ==
    ShapeOk =>
        /\ va_call.va.resampled <=> (stim_fs # fs /\ ~suppress_resamp)
        /\ "resampling" \in va_call.va.warned <=> va_call.va.resampled
        /\ ~va_call.va.resampled => va_call.va.after = va_call.va.before

\* C17: the buffer is resampled, and the resampling reported, exactly if the
\* rates differ by more than 0.5 Hz and resampling is not suppressed;
\* otherwise the samples pass through unchanged.
C17_ResamplesIffRatesApart ==
    ShapeOk =>
        /\ va_call.va.resampled
               <=> ((stim_fs - fs > 1 \/ fs - stim_fs > 1) /\ ~suppress_resamp)
        /\ "resampling" \in va_call.va.warned <=> va_call.va.resampled
        /\ ~va_call.va.resampled => va_call.va.after = va_call.va.before

\* a buffer at a rate 0.5 Hz from the device's has passed through, resampling
\* not suppressed
C17_Witness ==
    /\ ShapeOk
    /\ fs - stim_fs = 1
    /\ ~suppress_resamp
    /\ va_call.va.outcome = "returned"
    /\ ~va_call.va.resampled
    /\ va_call.va.after.shape = <<MaxLen, 2>>

\* the measured RMS of a channel or window is more than twice the stated
\* RMS, in squares
OverTwice(ms, rms) == \E f \in ms : f[1] > 4 * rms * rms * f[2]
\* the measured RMS of every channel and window is less than half the
\* stated RMS, in squares
UnderHalf(ms, rms) == \A f \in ms : 4 * f[1] < rms * rms * f[2]
LevelWarnings == {"rms low", "rms high"}

\* C18: with wholefile or windowed checking, a load_buffer of a buffer whose
\* measured RMS is more than twice the stated RMS fails with an error,
\* returns no buffer and leaves the device's buffer as it was; with checking
\* off no load fails for its level.
C18_OverLevelFails ==
    [][lb_call'.op = "load_buffer" =>
           LET v == lb_call'.va
           IN  /\ /\ v.stereo # NoArray
                  /\ check_rms' # "None"
                  /\ OverTwice(ChanMeanSquares(v.stereo, check_rms', fs'), stim_rms')
                  => /\ v.outcome = "UserWarning"
                     /\ v.out = NoArray
                     /\ ~lb_call'.passed
                     /\ ac_buffer' = ac_buffer
               /\ check_rms' = "None" => v.outcome # "UserWarning"]_vars

\* a load has failed for its level while the device holds an earlier buffer
C18_Witness ==
    /\ lb_call.op = "load_buffer"
    /\ lb_call.va.outcome = "UserWarning"
    /\ ~lb_call.passed
    /\ ac_buffer # NoBuffer

\* C19: with checking on, a buffer whose measured RMS is under half the
\* stated RMS is returned with a warning of its level; a buffer whose
\* measured RMS is from half to twice the stated RMS, bounds included, is
\* returned with no warning of its level, and with no warning at all if it
\* is not resampled.
C19_QuietWarnsOnly ==
    ShapeOk /\ check_rms # "None" =>
        LET ms == ChanMeanSquares(va_call.va.stereo, check_rms, fs)
            level == va_call.va.warned \cap LevelWarnings
        IN  /\ UnderHalf(ms, stim_rms)
                   => /\ va_call.va.outcome = "returned"
                      /\ va_call.va.out # NoArray
                      /\ level = {"rms low"}
            /\ ~UnderHalf(ms, stim_rms) /\ ~OverTwice(ms, stim_rms)
                   => /\ va_call.va.outcome = "returned"
                      /\ va_call.va.out # NoArray
                      /\ level = {}
                      /\ ~va_call.va.resampled => va_call.va.warned = {}

\* a buffer at exactly half the stated RMS has been returned with no warning
C19_Witness ==
    /\ ShapeOk
    /\ check_rms = "wholefile"
    /\ va_call.va.outcome = "returned"
    /\ va_call.va.warned = {}
    /\ \A f \in ChanMeanSquares(va_call.va.stereo, check_rms, fs) :
           4 * f[1] = stim_rms * stim_rms * f[2]

\* 20 * log10(num / den) = db, for db a whole number of decades
IsLevel(num, den, db) ==
    /\ db % 20 = 0
    /\ db >= 0 => num = den * Pow10(db \div 20)
    /\ db < 0 => num * Pow10((-db) \div 20) = den

\* C20: the stimulus gain g satisfies 20 * log10(g * stim_rms) = stim_db -
\* reference level, and the noise gain g satisfies 20 * log10(g * 1.0) =
\* noise_db - reference level, RMS values as fractions of full scale.
C20_GainReachesTarget ==
    /\ IsLevel(stim_scaler[1] * stim_rms, stim_scaler[2] * FullScale,
               stim_db - get_dev_db(audio_type))
    /\ IsLevel(noise_level[1] * FullScale, noise_level[2] * FullScale,
               noise_db - get_dev_db(audio_type))

\* a stimulus level above the reference level has been set for a stated RMS
\* other than the default, the noise level below it
C20_Witness ==
    /\ lb_call.op = "set_stim_db"
    /\ stim_db > get_dev_db(audio_type)
    /\ noise_db < get_dev_db(audio_type)
    /\ stim_rms # DefaultStimRms

\* ------------------------------------------------- level calibration claims
\* C21: a set_stim_db call leaves the device's buffer as it was, and a
\* load_buffer that passes a buffer on hands the device the validated samples
\* times the gain of the level set last: each sample s becomes a value v with
\* 20 * log10(v / s * stim_rms) = stim_db - reference level.
C21_GainAppliedAtLoad ==
    [][/\ lb_call'.op = "set_stim_db" => ac_buffer' = ac_buffer
       /\ lb_call'.op = "load_buffer" /\ lb_call'.passed =>
              LET out == lb_call'.va.out
              IN  /\ ac_buffer'.shape = out.shape
                  /\ DOMAIN ac_buffer'.data = DOMAIN out.data
                  /\ \A k \in DOMAIN out.data :
                         IF out.data[k] = 0 THEN ac_buffer'.data[k] = 0
                         ELSE IsLevel(ac_buffer'.data[k] * stim_rms',
                                      ac_buffer'.den * out.data[k] * FullScale,
                                      stim_db' - get_dev_db(audio_type'))]_vars

\* a level has been set after a load, and the device's buffer still has the
\* gain, of another denominator, of the level before
C21_Witness ==
    /\ lb_call.op = "set_stim_db"
    /\ ac_buffer # NoBuffer
    /\ ac_buffer.den # stim_scaler[2]
    /\ \E k \in DOMAIN ac_buffer.data : ac_buffer.data[k] # 0

RecognizedTypes == {"RM1", "RP2", "RZ6", "pyo", "psychopy"}

\* C22: for a device class that is not recognized, a level is set with a
\* warning and with a reference level under which the gain is no larger than
\* under the reference level of any recognized class, target level and RMS
\* the same: the gain shrinks as the reference level grows, so the reference
\* level is no smaller than that of any recognized class.
C22_FallbackIsConservative ==
    lb_call.op \in {"set_stim_db", "set_noise_db"} /\ audio_type \notin RecognizedTypes
        => /\ lb_call.dev_warned
           /\ \A type \in RecognizedTypes :
                  get_dev_db(audio_type) >= get_dev_db(type)

\* ------------------------------------------------- trigger stamping claims
\* the positions of the steps of the call that are of the given kind
StampSteps(op) == {i \in DOMAIN tr_call.steps : tr_call.steps[i].op = op}
\* the codes sent so far, in the order they were sent
SentCodes ==
    LET sends == SelectSeq(tr_call.steps, LAMBDA s : s.op = "send")
    IN  [i \in DOMAIN sends |-> sends[i].code]

\* C23: the codes sent are at all times the first codes of the list, in
\* order; the stamp is logged, and the call returns, only when every code of
\* the list has been sent once, and nothing is sent after the log.
C23_AllCodesInOrderThenReturn ==
    /\ Len(SentCodes) <= Len(tr_call.codes)
    /\ SentCodes = SubSeq(tr_call.codes, 1, Len(SentCodes))
    /\ \A i \in StampSteps("log") :
           /\ SentCodes = tr_call.codes
           /\ \A j \in StampSteps("send") : j < i
    /\ tr_call.outcome = "returned"
           => /\ SentCodes = tr_call.codes
              /\ Cardinality(StampSteps("log")) = 1

\* a list of MaxCodes codes with a code twice has been stamped
C23_Witness ==
    /\ tr_call.outcome = "returned"
    /\ Len(tr_call.codes) = MaxCodes
    /\ tr_call.codes[1] = tr_call.codes[MaxCodes]
    /\ tr_call.codes[1] # tr_call.codes[2]

\* C24: with the trigger channel unavailable a call raises and has sent no
\* code; no call has ended with some but not all of its codes sent.
C24_FailsBeforeAnySend ==
    /\ ~tr_chan => SentCodes = <<>> /\ tr_call.outcome # "returned"
    /\ ~tr_chan /\ tr_call.codes # <<>> /\ tr_call.at = 0
           => tr_call.outcome = "raised"
    /\ tr_call.at = 0 => SentCodes = <<>> \/ SentCodes = tr_call.codes

\* a call with more than one code has raised
C24_Witness ==
    /\ ~tr_chan
    /\ tr_call.outcome = "raised"
    /\ Len(tr_call.codes) > 1

\* ---------------------------------------------------------- teardown claims
\* what __exit__ has done of the given part, in order
ExitOps(part) ==
    LET done == SelectSeq(ex_steps, LAMBDA s : s.part = part)
    IN  [i \in DOMAIN done |-> done[i].op]
\* the cleanup actions of the controller: the four of every controller, the
\* data file's close and the registered extra cleanups
ExpectedCleanups ==
    <<"stop_noise", "stop", "halt", "win_close">>
        \o (IF has_data_file THEN <<"data_file_close">> ELSE <<>>)
        \o extra_cleanup_fun
CleanupOver == ex_pc \in {"threads", "wait", "reraise", "done"}
ThreadsStopped ==
    {ex_steps[i].thread : i \in {k \in DOMAIN ex_steps :
                                     ex_steps[k].op = "thread_stop"}}

\* C25: once the cleanup loop is over, every cleanup action has been called
\* once, in the order of the list, whichever of them raised.
C25_EveryCleanupAttempted ==
    /\ Len(ExitOps("cleanup")) <= Len(ExpectedCleanups)
    /\ ExitOps("cleanup") = SubSeq(ExpectedCleanups, 1, Len(ExitOps("cleanup")))
    /\ CleanupOver => ExitOps("cleanup") = ExpectedCleanups

\* teardown has ended after its first two cleanup actions raised
C25_Witness ==
    /\ ex_pc = "done"
    /\ ex_fails = {"stop_noise", "stop"}
    /\ ex_steps[1].raised /\ ex_steps[2].raised
    /\ extra_cleanup_fun # <<>>
    /\ has_data_file

\* C26: teardown never ends by raising unless it was given an exception, and
\* then it raises it only after every cleanup action has been called and
\* every event thread has been told to stop.
C26_ReraisedAfterEveryAttempt ==
    /\ ex_pc = "done" /\ ~ex_err => ex_result = "returned"
    /\ ex_result = "raised"
           => /\ ex_err
              /\ ExitOps("cleanup") = ExpectedCleanups
              /\ ThreadsStopped = DOMAIN th_running

\* C27: when the window is closed, every event thread has been told to stop.
C27_ThreadsStoppedBeforeWindowClose ==
    \A i \in DOMAIN ex_steps :
        ex_steps[i].op = "win_close"
            => \A thread \in DOMAIN th_running :
                   \E j \in 1..(i - 1) :
                       /\ ex_steps[j].op = "thread_stop"
                       /\ ex_steps[j].thread = thread

\* C28: when teardown has ended, every event thread whose stop() returned
\* has finished polling.
C28_StoppedThreadsQuiesced ==
    ex_result # "none" =>
        \A i \in DOMAIN ex_steps :
            ex_steps[i].op = "thread_stop" /\ ~ex_steps[i].raised
                => th_running[ex_steps[i].thread] = -1

\* teardown has returned after it stopped MaxThreads event threads
C28_Witness ==
    /\ ex_result = "returned"
    /\ Len(th_running) = MaxThreads
    /\ ThreadsStopped = 1..MaxThreads
    /\ \A thread \in 1..MaxThreads : th_running[thread] = -1

\* ------------------------------------------------------ construction claim
ConfigErrors ==
    {"ValueError: audio_controller", "TypeError: audio_controller",
     "ValueError: audio_controller['TYPE']", "ValueError: response_device",
     "ValueError: response_device tdt without tdt audio",
     "ValueError: trigger_controller tdt without tdt audio",
     "ValueError: trigger_controller"}

\* C29: a construction that fails with a configuration error has set up no
\* audio device and has opened no window.
C29_ConfigErrorBeforeDevices ==
    init_call.done.outcome \in ConfigErrors =>
        \A i \in DOMAIN init_call.done.steps :
            init_call.done.steps[i]
                \notin {"TDTController", "PyoSound", "_setup_window"}

\* ------------------------------------------------------- wait_until claim
\* C30: a call returns the timestamp minus the master clock's time at the
\* call; if that is negative it warns and does not wait, else it does not
\* warn and waits once, for that time.
C30_ReturnsTimeLeft ==
    wu_call # NoWait =>
        LET left == wu_call.timestamp - wu_call.called_at
        IN  /\ wu_call.ret = left
            /\ left < 0 => wu_call.warned /\ wu_call.waits = <<>>
            /\ left >= 0 => ~wu_call.warned /\ wu_call.waits = <<left>>

\* a call for a time that had passed has returned
C30_Witness ==
    /\ wu_call # NoWait
    /\ wu_call.ret < 0
    /\ wu_call.warned

\* ---------------------------------------------- queued callbacks, again
\* C31: outside a flip the next-flip list holds no _play, and a flip that was
\* entered through flip(), not flip_and_play(), calls no _play.
C31_PlayStartsAudioOnce ==
    /\ pc = 0 => PLAY \notin Range(on_next_flip)
    /\ entry = "flip" => \A i \in CallIdx : ~IsPlay(i)

\* the callback leaves the next-flip list in this step
LeavesNextFlip(id) ==
    /\ id \in Range(on_next_flip)
    /\ id \notin Range(on_next_flip')
\* the step is a call_on_next_flip(None) of the program, outside every flip
ExplicitClear == pc = 0 /\ pc' = 0

\* C32: a callback registered with call_on_next_flip is called in no more
\* than one flip and not in the flip during which it was registered, and it
\* leaves the next-flip list only once it has been called, unless the list is
\* cleared with call_on_next_flip(None).
C32_NextFlipCallbackRunsOnce ==
    /\ [](\A id \in Ids :
              registered[id] = "next" =>
                  /\ Cardinality(ran_in[id]) <= 1
                  /\ during[id] \notin ran_in[id])
    /\ [][\A id \in Ids :
              (LeavesNextFlip(id) /\ ~ExplicitClear) => ran_in[id] # {}]_vars

\* ------------------------------------------------------ rejected buffers
\* what _validate_audio raises
ValidationErrors == {RangeError, "UserWarning"} \cup ShapeErrors

\* C33: a load_buffer whose samples _validate_audio rejects, for their
\* range, their shape or their level, ends with that error and leaves the
\* device's buffer and the stimulus gain as they were.
C33_RejectedLoadChangesNothing ==
    [][lb_call'.op = "load_buffer" /\ lb_call'.va.outcome # "returned" =>
           /\ lb_call'.va.outcome \in ValidationErrors
           /\ lb_call'.va.out = NoArray
           /\ ac_buffer' = ac_buffer
           /\ stim_scaler' = stim_scaler]_vars

\* a load has been rejected for the range or the shape of its samples while
\* the device holds an earlier buffer, loaded under another gain
C33_Witness ==
    /\ lb_call.op = "load_buffer"
    /\ lb_call.va.outcome \in {RangeError} \cup ShapeErrors
    /\ ac_buffer # NoBuffer
    /\ ac_buffer.den # stim_scaler[2]
    /\ \E k \in DOMAIN ac_buffer.data : ac_buffer.data[k] # 0

====
